---- MODULE Spec2Model ----
(***************************************************************************)
(* Model of the agent-runtime custom resource (lambda_handler and the      *)
(* operations it calls) of                                                 *)
(* backend/lambda/agent-runtime-custom-resource/agent-runtime-custom-      *)
(* resource.py, run against a backend that owns the runtime records.       *)
(*                                                                         *)
(* A Python string is a sequence of tokens: concatenation (an f-string) is *)
(* \o, str.startswith is the prefix test, and "x in s" is membership of a  *)
(* token.  A Python dict is a function from its keys to their values.      *)
(***************************************************************************)
EXTENDS Integers, Sequences, FiniteSets, TLC

(***************************************************************************)
(* Bounds of the model.                                                    *)
(***************************************************************************)
MaxInvocations == 3
MaxRuntimes == 2
MaxListLatency == 2
MaxListLen == 3
MaxInstances == 3
MaxMessages == 1

MaxRequests == 3

(***************************************************************************)
(* Program constants.                                                      *)
(***************************************************************************)
CheckInterval == 5
UpdateMaxWaitSeconds == 90
DefaultMaxWaitSeconds == 60

(***************************************************************************)
(* Strings.                                                                *)
(***************************************************************************)
None == <<"$None">>

Str(s) == <<s>>

Falsy(v) == v = None \/ v = <<>>

StartsWith(s, prefix) ==
    /\ Len(prefix) <= Len(s)
    /\ SubSeq(s, 1, Len(prefix)) = prefix

Lower(tok) ==
    CASE tok = "Not Found" -> "not found"
      [] tok = "NOT FOUND" -> "not found"
      [] OTHER -> tok

Tokens(s) == {s[i] : i \in 1..Len(s)}

(***************************************************************************)
(* The inputs: resource names, the properties of a deployment, request     *)
(* types, and the texts of the errors the backend raises.                  *)
(***************************************************************************)
Names == {<<"job">>, <<"job", "-agent">>}

Deployments ==
    { [ContainerUri |-> <<"repo/image:1">>, RoleArn |-> <<"role/one">>, account |-> <<"111111111111">>],
      [ContainerUri |-> <<"repo/image:2">>, RoleArn |-> <<"role/two">>, account |-> <<"222222222222">>] }

RequestTypes == {"Create", "Update", "Delete", "Replace"}

ConsumedFields == {"RequestType", "ResourceProperties", "AgentRuntimeName", "ContainerUri", "RoleArn"}

ErrorMessages ==
    { <<"An error occurred (", "ResourceNotFoundException", ")">>,
      <<"Runtime ", "Not Found">>,
      <<"An error occurred (", "AccessDeniedException", ")">> }

KNOWLEDGE_BASE_ID == <<"KB1">>

AWS_REGION == <<"us-west-2">>

(***************************************************************************)
(* dict.update and dict.get.                                               *)
(***************************************************************************)
DictUpdate(d, e) ==
    [k \in (DOMAIN d) \cup (DOMAIN e) |-> IF k \in DOMAIN e THEN e[k] ELSE d[k]]

DictSet(d, key, v) == DictUpdate(d, (key :> v))

DictGet(d, key, default) == IF key \in DOMAIN d THEN d[key] ELSE default

(***************************************************************************)
(* construct_agent_runtime_arn                                             *)
(***************************************************************************)
construct_agent_runtime_arn_of_id(account, agent_runtime_name, agent_runtime_id) ==
    LET region == IF Falsy(AWS_REGION) THEN <<"us-east-1">> ELSE AWS_REGION
        account_id == IF Falsy(account) THEN <<"unknown">> ELSE account
    IN  IF Falsy(agent_runtime_id)
        THEN <<>>
        ELSE <<"arn:aws:bedrock-agentcore:">> \o region \o <<":">> \o account_id
                 \o <<":runtime/">> \o agent_runtime_id

construct_agent_runtime_arn(account, agent_runtime_name, agent_runtime_id) ==
    LET region == IF Falsy(AWS_REGION) THEN <<"us-east-1">> ELSE AWS_REGION
        account_id == IF Falsy(account) THEN <<"unknown">> ELSE account
        runtime_identifier ==
            IF Falsy(agent_runtime_id)
            THEN agent_runtime_name \o <<"-placeholder">>
            ELSE agent_runtime_id
    IN  <<"arn:aws:bedrock-agentcore:">> \o region \o <<":">> \o account_id
            \o <<":runtime/">> \o runtime_identifier

(***************************************************************************)
(* create_agent_runtime: the response data built from the backend's        *)
(* response to a successful create call.                                   *)
(***************************************************************************)
CreateResponseData(account, agent_runtime_name, response) ==
    LET agent_runtime_id == response.agentRuntimeId
        agent_runtime_arn == response.agentRuntimeArn
    IN  [ AgentRuntimeArn |->
              IF Falsy(agent_runtime_arn)
              THEN construct_agent_runtime_arn(account, agent_runtime_name, agent_runtime_id)
              ELSE agent_runtime_arn,
          AgentRuntimeId |->
              IF Falsy(agent_runtime_id) THEN agent_runtime_name ELSE agent_runtime_id,
          Status |-> Str("Created"),
          EnvironmentVariables |->
              <<"{'KNOWLEDGE_BASE_ID': ">> \o KNOWLEDGE_BASE_ID
                  \o <<", 'AWS_REGION': ">> \o AWS_REGION \o <<"}">> ]

(***************************************************************************)
(* The Runtime Locator: the scan of delete_agent_runtime and of            *)
(* wait_for_deletion over the records of the list response.                *)
(***************************************************************************)
MatchesNameOnly(runtime, agent_runtime_name) ==
    runtime.agentRuntimeName = agent_runtime_name

Matches(runtime, agent_runtime_name) ==
    \/ runtime.agentRuntimeName = agent_runtime_name
    \/ StartsWith(runtime.agentRuntimeId, agent_runtime_name)

Locate(runtimes, agent_runtime_name) ==
    LET hits == {i \in 1..Len(runtimes) : Matches(runtimes[i], agent_runtime_name)}
    IN  IF hits = {}
        THEN None
        ELSE runtimes[CHOOSE i \in hits : \A j \in hits : i <= j].agentRuntimeId

(***************************************************************************)
(* delete_agent_runtime: the response data of each of its outcomes.        *)
(***************************************************************************)
DeleteBaseData(account, agent_runtime_name) ==
    [ AgentRuntimeArn |-> construct_agent_runtime_arn(account, agent_runtime_name, None),
      AgentRuntimeName |-> agent_runtime_name ]

DeleteNotFoundAsFailure(account, agent_runtime_name) ==
    DictUpdate(DeleteBaseData(account, agent_runtime_name),
        [ Status |-> Str("Delete Attempted"),
          Message |-> <<"No runtime found with name ">> \o agent_runtime_name ])

DeleteNotFoundData(account, agent_runtime_name) ==
    DictUpdate(DeleteBaseData(account, agent_runtime_name),
        [ Status |-> Str("Runtime Not Found - Assuming Already Deleted"),
          Message |-> <<"No runtime found with name ">> \o agent_runtime_name
                          \o <<", assuming already deleted">> ])

DeleteDoneDataUnconfirmed(account, agent_runtime_name, agent_runtime_id) ==
    DictUpdate(DeleteBaseData(account, agent_runtime_name),
        [ Status |-> Str("Delete Attempted"),
          Message |-> <<"Agent runtime ">> \o agent_runtime_name \o <<" (ID: ">>
                          \o agent_runtime_id \o <<") deletion initiated">> ])

DeleteDoneData(account, agent_runtime_name, agent_runtime_id) ==
    DictUpdate(DeleteBaseData(account, agent_runtime_name),
        [ Status |-> Str("Deleted"),
          Message |-> <<"Agent runtime ">> \o agent_runtime_name \o <<" (ID: ">>
                          \o agent_runtime_id \o <<") deletion initiated">> ])

IsNotFoundError(error_message) ==
    \/ "ResourceNotFoundException" \in Tokens(error_message)
    \/ "not found" \in {Lower(t) : t \in Tokens(error_message)}

DeleteErrorData(account, agent_runtime_name, error_message) ==
    DictUpdate(DeleteBaseData(account, agent_runtime_name),
        IF IsNotFoundError(error_message)
        THEN [ Status |-> Str("Already Deleted"),
               Message |-> <<"Agent runtime ">> \o agent_runtime_name
                               \o <<" was already deleted or never existed">> ]
        ELSE [ Status |-> Str("Delete Attempted"),
               Message |-> <<"Delete attempted but encountered error: ">> \o error_message ])

(***************************************************************************)
(* lambda_handler: the response data it starts from, the physical resource *)
(* id it reports, and the data of each of its outcomes.                    *)
(***************************************************************************)
InitialResponseData(account, agent_runtime_name) ==
    [ AgentRuntimeArn |-> construct_agent_runtime_arn(account, agent_runtime_name, None),
      AgentRuntimeName |-> agent_runtime_name,
      KnowledgeBaseId |-> IF Falsy(KNOWLEDGE_BASE_ID) THEN Str("Not Set") ELSE KNOWLEDGE_BASE_ID,
      Region |-> IF Falsy(AWS_REGION) THEN Str("Not Set") ELSE AWS_REGION ]

StablePhysicalId(agent_runtime_name) ==
    <<"agent-runtime-">> \o agent_runtime_name \o <<"-stable">>

PhysicalResourceIdRecomputed(request_type, agent_runtime_name, event_physical_id) ==
    IF request_type = "Update"
    THEN <<"agent-runtime-">> \o agent_runtime_name \o <<"-updated">>
    ELSE IF request_type = "Create" \/ event_physical_id = None
         THEN StablePhysicalId(agent_runtime_name)
         ELSE event_physical_id

PhysicalResourceIdFromEvent(request_type, agent_runtime_name, event_physical_id) ==
    IF event_physical_id = None
    THEN StablePhysicalId(agent_runtime_name)
    ELSE event_physical_id

PhysicalResourceId(request_type, agent_runtime_name, event_physical_id) ==
    IF request_type = "Create"
    THEN StablePhysicalId(agent_runtime_name)
    ELSE IF event_physical_id = None
         THEN StablePhysicalId(agent_runtime_name)
         ELSE event_physical_id

CreateFailedDataWithoutError(data, account, agent_runtime_name, error_message) ==
    DictUpdate(data,
        [ AgentRuntimeArn |-> construct_agent_runtime_arn(account, agent_runtime_name, None),
          Status |-> Str("Creation Failed") ])

CreateFailedData(data, account, agent_runtime_name, error_message) ==
    DictUpdate(data,
        [ AgentRuntimeArn |-> construct_agent_runtime_arn(account, agent_runtime_name, None),
          Status |-> Str("Creation Failed"),
          Error |-> error_message ])

UpdateProceedsAfterAnyDelete(delete_status) ==
    delete_status \in {Str("Deleted"), Str("Already Deleted"), Str("Delete Attempted")}

UpdateProceeds(delete_status) ==
    delete_status \in {Str("Deleted"), Str("Already Deleted")}

UpdateWaitsNever(delete_status) == FALSE

UpdateWaits(delete_status) == delete_status = Str("Deleted")

TimedOutDataSilent(data) == data

TimedOutData(data) ==
    DictSet(data, "Warning", Str("Deletion wait timed out but proceeding with creation"))

UpdatedData(data, agent_runtime_name, delete_data, create_data) ==
    DictUpdate(DictUpdate(data, create_data),
        [ Status |-> Str("Updated (Deleted and Recreated)"),
          Message |-> <<"Agent runtime ">> \o agent_runtime_name
                          \o <<" updated by deleting old runtime and creating new one">>,
          DeleteStep |-> delete_data["Status"],
          CreateStep |-> create_data["Status"] ])

UpdateDeleteFailedData(data, delete_data) ==
    DictUpdate(DictUpdate(data, delete_data),
        [ Status |-> Str("Update Failed - Delete Step Failed"),
          Message |-> <<"Update failed because delete step failed: ">>
                          \o DictGet(delete_data, "Message", Str("Unknown error")) ])

UpdateFailedData(data, account, agent_runtime_name, error_message) ==
    DictUpdate(data,
        [ AgentRuntimeArn |-> construct_agent_runtime_arn(account, agent_runtime_name, None),
          Status |-> Str("Update Failed"),
          Error |-> error_message ])

UnexpectedDataUntyped(data, account, agent_runtime_name, request_type) ==
    DictUpdate(data,
        [ AgentRuntimeArn |-> construct_agent_runtime_arn(account, agent_runtime_name, None),
          Status |-> Str("Unexpected Request Type"),
          Message |-> Str("Received unexpected request type") ])

UnexpectedData(data, account, agent_runtime_name, request_type) ==
    DictUpdate(data,
        [ AgentRuntimeArn |-> construct_agent_runtime_arn(account, agent_runtime_name, None),
          Status |-> <<"Unexpected Request Type: ", request_type>>,
          Message |-> <<"Received unexpected request type: ", request_type>> ])

BackfillArn(data, account, agent_runtime_name) ==
    IF Falsy(DictGet(data, "AgentRuntimeArn", None))
    THEN DictSet(data, "AgentRuntimeArn",
             construct_agent_runtime_arn(account, agent_runtime_name, None))
    ELSE data

ErrorResponseData(account, agent_runtime_name, error_message) ==
    [ Error |-> error_message,
      AgentRuntimeArn |-> construct_agent_runtime_arn(account, agent_runtime_name, None),
      AgentRuntimeName |-> agent_runtime_name ]

(***************************************************************************)
(* The statusCode lambda_handler returns after the send_response call at   *)
(* the given line.                                                         *)
(***************************************************************************)
ReturnCode(site) == IF site \in {"L225", "L266", "L275"} THEN 500 ELSE 200

(***************************************************************************)
(* State.                                                                  *)
(*   backend      the backend's runtime records, in list order             *)
(*   nextId       the number of the next identifier the backend assigns    *)
(*   pc           the position of lambda_handler                           *)
(*   event        the event of the current invocation                      *)
(*   response_data, physical_resource_id, delete_response,                 *)
(*   agent_runtime_id   the handler's locals of those names                *)
(*   elapsed      seconds wait_for_deletion has slept since it started (0  *)
(*                when it is not running)                                  *)
(*   trace        the backend calls of the current invocation, in order    *)
(*                (the polls of wait_for_deletion are not listed one by    *)
(*                one: its call and its return are)                        *)
(*   sent         the notifications PUT by the current invocation          *)
(*   sendCalls    the send_response calls of the current invocation        *)
(*   statusCode   what the handler returned (0: nothing yet, or it raised) *)
(*   invocations  the number of invocations so far                         *)
(*   preId        what the name resolved to when the invocation started    *)
(*   resource     per name, the orchestrator's view of the logical         *)
(*                resource: the phase of its Create/Update/Delete          *)
(*                sequence, the physical id of its first and of its last   *)
(*                notification, and the physical ids of the notifications  *)
(*                of its Create requests, in order                         *)
(*   prevDelete   the summary of the previous invocation                   *)
(***************************************************************************)
VARIABLES backend, nextId, pc, event, response_data, physical_resource_id,
          delete_response, agent_runtime_id, elapsed, trace, sent, sendCalls,
          statusCode, invocations, preId, resource, prevDelete

(***************************************************************************)
(* State of one call of wait_for_deletion taken on its own.                *)
(*   wait_pc           "idle" (no call), "loop" (at the while test) or     *)
(*                     "returned"                                          *)
(*   wait_name, max_wait_seconds   the call's arguments                    *)
(*   clock             time.time() - start_time, in seconds                *)
(*   wait_result       what the call returned                              *)
(*   last_poll         the outcome of the latest poll: "listed" (a         *)
(*                     matching runtime was listed), "absent" (none was),  *)
(*                     "raised" (the list call raised), "none" (no poll)   *)
(*   last_latency      the seconds the latest list call took               *)
(***************************************************************************)
VARIABLES wait_pc, wait_name, max_wait_seconds, clock, wait_result, last_poll,
          last_latency

waiterVars == <<wait_pc, wait_name, max_wait_seconds, clock, wait_result, last_poll,
                last_latency>>

(***************************************************************************)
(* State of one scan of the Runtime Locator taken on its own.              *)
(*   scan_pc       "idle" (no scan), "scan" or "done"                      *)
(*   agentRuntimes the records of the list response, in list order         *)
(*   target_name   the name to resolve                                     *)
(*   located       the value of agent_runtime_id after the loop            *)
(***************************************************************************)
VARIABLES scan_pc, agentRuntimes, target_name, located

locatorVars == <<scan_pc, agentRuntimes, target_name, located>>

(***************************************************************************)
(* State of the session cache of job_search_agent.py.                      *)
(*   session_agents   JobSearchAgent._session_agents: session id -> Agent  *)
(*   instances        the JobSearchAgent objects constructed so far, each  *)
(*                    with its session_id and its agent                    *)
(*   nextAgent        the identity of the next Agent _create_agent makes   *)
(*   messages         per Agent, the number of messages of its history     *)
(*   requests         per handle_agent_request invocation in flight, the   *)
(*                    line it has reached, its session_id and the Agent    *)
(*                    its JobSearchAgent object holds                      *)
(***************************************************************************)
VARIABLES session_agents, instances, nextAgent, messages, requests

sessionVars == <<session_agents, instances, nextAgent, messages, requests>>

otherVars == <<waiterVars, locatorVars, sessionVars>>

invocationVars == <<nextId, pc, event, response_data, physical_resource_id,
                    delete_response, agent_runtime_id, elapsed, trace, sent, sendCalls,
                    statusCode, invocations, preId, resource, prevDelete>>

vars == <<backend, nextId, pc, event, response_data, physical_resource_id,
          delete_response, agent_runtime_id, elapsed, trace, sent, sendCalls,
          statusCode, invocations, preId, resource, prevDelete, otherVars>>

NoEvent == [RequestType |-> "none"]

NoData == [Status |-> Str("none")]

NoSummary == [kind |-> "none"]

CustomPhysicalId == <<"custom-physical-id">>

ClientError == <<"Unknown service: ", "bedrock-agentcore-control">>

(***************************************************************************)
(* An entry of trace: the operation, the identifier it is about (the one   *)
(* the list resolved the name to, the one passed to delete, the one the    *)
(* create was given by the backend), whether it returned (TRUE) or raised  *)
(* (FALSE), and the text of the error it raised; a create that returned    *)
(* has the backend's response as well.                                     *)
(***************************************************************************)
Call(op, id, ok) == [op |-> op, id |-> id, ok |-> ok, error |-> None]

Raised(op, id, error_message) == [op |-> op, id |-> id, ok |-> FALSE, error |-> error_message]

Created(id, response) ==
    [op |-> "create", id |-> id, ok |-> TRUE, error |-> None, response |-> response]

Terminal == {"idle", "returned", "raised"}

NoWaiter ==
    /\ wait_pc = "idle"
    /\ wait_name = None
    /\ max_wait_seconds = 0
    /\ clock = 0
    /\ wait_result = "none"
    /\ last_poll = "none"
    /\ last_latency = 0

NoScan ==
    /\ scan_pc = "idle"
    /\ agentRuntimes = <<>>
    /\ target_name = None
    /\ located = None

EmptyDict == [k \in {} |-> None]

Requests == 1..MaxRequests

NoRequest == [pc |-> "idle", session_id |-> None, agent |-> 0]

NoSessions ==
    /\ session_agents = EmptyDict
    /\ instances = <<>>
    /\ nextAgent = 1
    /\ messages = EmptyDict
    /\ requests = [r \in Requests |-> NoRequest]

NoInvocation ==
    /\ nextId = 1
    /\ pc = "idle"
    /\ event = NoEvent
    /\ response_data = NoData
    /\ physical_resource_id = None
    /\ delete_response = NoData
    /\ agent_runtime_id = None
    /\ elapsed = 0
    /\ trace = <<>>
    /\ sent = <<>>
    /\ sendCalls = 0
    /\ statusCode = 0
    /\ invocations = 0
    /\ preId = None
    /\ resource = [n \in Names |->
                      [phase |-> "none", first |-> None, last |-> None, createIds |-> <<>>]]
    /\ prevDelete = NoSummary

Init ==
    /\ backend = <<>>
    /\ NoInvocation
    /\ NoWaiter
    /\ NoScan
    /\ NoSessions

(***************************************************************************)
(* The orchestrator's view of a logical resource after a notification with *)
(* physical id pid: Create starts its sequence, an Update or a Delete that *)
(* carries the physical id of the previous notification continues it, and  *)
(* any other event breaks it (the ids are then no longer followed).        *)
(***************************************************************************)
NextResource(r, ev, pid) ==
    LET carried == ev.PhysicalResourceId # None /\ ev.PhysicalResourceId = r.last
        ids == IF ev.RequestType = "Create" THEN Append(r.createIds, pid) ELSE r.createIds
    IN  CASE r.phase = "none" /\ ev.RequestType = "Create" ->
                 [phase |-> "live", first |-> pid, last |-> pid, createIds |-> ids]
          [] r.phase = "live" /\ ev.RequestType = "Update" /\ carried ->
                 [phase |-> "live", first |-> r.first, last |-> pid, createIds |-> ids]
          [] r.phase = "live" /\ ev.RequestType = "Delete" /\ carried ->
                 [phase |-> "ended", first |-> r.first, last |-> pid, createIds |-> ids]
          [] OTHER ->
                 [phase |-> "broken", first |-> None, last |-> None, createIds |-> ids]

SendAndFallThrough(ev, pid, site, response_status, data) ==
    LET failed == [Status |-> response_status, PhysicalResourceId |-> pid, Data |-> data]
        success == [Status |-> "SUCCESS", PhysicalResourceId |-> pid, Data |-> data]
        falls == site \in {"L225", "L266", "L275"}
    IN  /\ sendCalls' = IF falls THEN sendCalls + 2 ELSE sendCalls + 1
        /\ sent' = IF falls THEN sent \o <<failed, success>> ELSE Append(sent, failed)
        /\ pc' = "returned"
        /\ statusCode' = 200
        /\ resource' = [resource EXCEPT ![ev.AgentRuntimeName] = NextResource(@, ev, pid)]

(***************************************************************************)
(* send_response at the given line of lambda_handler, and the handler's    *)
(* return after it.  A PUT that fails is caught and logged inside          *)
(* send_response: the handler goes on as after one that succeeds.          *)
(***************************************************************************)
SendAndReturn(ev, pid, site, response_status, data) ==
    /\ sendCalls' = sendCalls + 1
    /\ sent' = Append(sent, [ Status |-> response_status,
                              PhysicalResourceId |-> pid,
                              Data |-> data ])
    /\ pc' = "returned"
    /\ statusCode' = ReturnCode(site)
    /\ resource' = [resource EXCEPT ![ev.AgentRuntimeName] = NextResource(@, ev, pid)]

(***************************************************************************)
(* The summary, for the next invocation, of a finished Delete invocation   *)
(* whose list call had no runtime matching the name, and of a finished     *)
(* Update invocation whose delete call returned and whose create call      *)
(* raised.                                                                 *)
(***************************************************************************)
Count(log, op) == Cardinality({i \in 1..Len(log) : log[i].op = op})

Mutated(log) == \E i \in 1..Len(log) : log[i].op \in {"create", "delete"} /\ log[i].ok

Unlisted(log) == Len(log) > 1 /\ log[2] = Call("list", None, TRUE)

CreateRaisedAfterDelete(log) ==
    /\ Len(log) > 3
    /\ log[3].op = "delete" /\ log[3].ok
    /\ log[Len(log)].op = "create" /\ ~log[Len(log)].ok

Summary ==
    IF pc = "returned" /\ event.RequestType = "Delete" /\ Unlisted(trace)
    THEN [ kind |-> "Delete of an unlisted name",
           AgentRuntimeName |-> event.AgentRuntimeName,
           deletes |-> Count(trace, "delete"),
           mutated |-> Mutated(trace),
           Status |-> sent[1].Status,
           DataStatus |-> DictGet(sent[1].Data, "Status", None) ]
    ELSE IF pc = "returned" /\ event.RequestType = "Update" /\ CreateRaisedAfterDelete(trace)
         THEN [ kind |-> "Update whose create raised",
                AgentRuntimeName |-> event.AgentRuntimeName ]
         ELSE NoSummary

(***************************************************************************)
(* The events an invocation can receive.                                   *)
(***************************************************************************)
Event(rt, n, d, p, m) ==
    [ RequestType |-> rt, AgentRuntimeName |-> n, ContainerUri |-> d.ContainerUri,
      RoleArn |-> d.RoleArn, account |-> d.account, PhysicalResourceId |-> p,
      missing |-> m ]

EventPhysicalIds(n) == {None, CustomPhysicalId, resource[n].last}

WellFormedEvents ==
    UNION { { Event(rt, n, d, p, "nothing") :
                rt \in RequestTypes, d \in Deployments, p \in EventPhysicalIds(n) } :
            n \in Names }

MalformedEvents ==
    LET d == CHOOSE x \in Deployments : TRUE
    IN  { Event("none", n, d, None, "RequestType") : n \in Names }
            \cup { Event(rt, n, d, None, "ContainerUri") : rt \in RequestTypes, n \in Names }

Events == WellFormedEvents \cup MalformedEvents

(***************************************************************************)
(* lambda_handler, from its entry to the try statement: it reads the       *)
(* event (a missing field raises KeyError, which leaves the handler) and   *)
(* computes the initial response data and the physical resource id.        *)
(***************************************************************************)
Invoke ==
    /\ pc \in Terminal
    /\ invocations < MaxInvocations
    /\ \E ev \in Events :
        LET name == ev.AgentRuntimeName
        IN  /\ event' = ev
            /\ preId' = Locate(backend, name)
            /\ IF ev.missing \in ConsumedFields
               THEN /\ pc' = "raised"
                    /\ response_data' = NoData
                    /\ physical_resource_id' = None
               ELSE /\ pc' = "start"
                    /\ response_data' = InitialResponseData(ev.account, name)
                    /\ physical_resource_id' =
                           PhysicalResourceId(ev.RequestType, name, ev.PhysicalResourceId)
    /\ invocations' = invocations + 1
    /\ prevDelete' = Summary
    /\ trace' = <<>>
    /\ sent' = <<>>
    /\ sendCalls' = 0
    /\ statusCode' = 0
    /\ delete_response' = NoData
    /\ agent_runtime_id' = None
    /\ elapsed' = 0
    /\ UNCHANGED otherVars
    /\ UNCHANGED <<backend, nextId, resource>>

Continue(position) ==
    /\ pc' = position
    /\ UNCHANGED <<sent, sendCalls, statusCode, resource>>

(***************************************************************************)
(* lambda_handler: the construction of the client, the dispatch on the     *)
(* request type, and the branch of an unexpected request type.             *)
(***************************************************************************)
Dispatch ==
    /\ pc = "start"
    /\ LET name == event.AgentRuntimeName
       IN  \/ /\ trace' = Append(trace, Raised("client", None, ClientError))
              /\ response_data' = response_data
              /\ SendAndReturn(event, physical_resource_id, "L306", "FAILED",
                     ErrorResponseData(event.account, name, ClientError))
           \/ /\ event.RequestType \in {"Create", "Update", "Delete"}
              /\ trace' = Append(trace, Call("client", None, TRUE))
              /\ response_data' = response_data
              /\ Continue(event.RequestType)
           \/ /\ event.RequestType \notin {"Create", "Update", "Delete"}
              /\ trace' = Append(trace, Call("client", None, TRUE))
              /\ LET data == BackfillArn(UnexpectedData(response_data, event.account,
                                 name, event.RequestType), event.account, name)
                 IN  /\ response_data' = data
                     /\ SendAndReturn(event, physical_resource_id, "L295", "SUCCESS", data)
    /\ UNCHANGED otherVars
    /\ UNCHANGED <<backend, nextId, event, physical_resource_id, delete_response,
                   agent_runtime_id, elapsed, invocations, preId, prevDelete>>

(***************************************************************************)
(* The backend.  create assigns a fresh identifier, derived from the name  *)
(* or opaque, and answers with the identifier and the ARN, or without one  *)
(* or both of them; delete-by-id starts an asynchronous deletion, which    *)
(* the backend completes on its own; every call can raise.                 *)
(***************************************************************************)
IdStyles == {"derived", "opaque"}

ResponseShapes == {"id and arn", "id", "neither"}

NewId(style, agent_runtime_name) ==
    IF style = "derived"
    THEN agent_runtime_name \o <<"-", ToString(nextId)>>
    ELSE <<"rt-", ToString(nextId)>>

BackendArn(id) == <<"arn:aws:bedrock-agentcore:us-west-2:999999999999:runtime/">> \o id

CreateResponse(shape, id) ==
    [ agentRuntimeId |-> IF shape = "neither" THEN None ELSE id,
      agentRuntimeArn |-> IF shape = "id and arn" THEN BackendArn(id) ELSE None ]

BackendIds == {backend[i].agentRuntimeId : i \in 1..Len(backend)}

BackendAfterDelete(id) ==
    [i \in 1..Len(backend) |->
        IF backend[i].agentRuntimeId = id
        THEN [backend[i] EXCEPT !.status = "DELETING"]
        ELSE backend[i]]

Remove(seq, i) == SubSeq(seq, 1, i - 1) \o SubSeq(seq, i + 1, Len(seq))

BackendFinishDeletion ==
    /\ \E i \in 1..Len(backend) :
        /\ backend[i].status = "DELETING"
        /\ backend' = Remove(backend, i)
    /\ UNCHANGED otherVars
    /\ UNCHANGED <<nextId, pc, event, response_data, physical_resource_id,
                   delete_response, agent_runtime_id, elapsed, trace, sent,
                   sendCalls, statusCode, invocations, preId, resource, prevDelete>>

(***************************************************************************)
(* lambda_handler, Create branch: create_agent_runtime and what follows.   *)
(***************************************************************************)
CreateStep ==
    /\ pc = "Create"
    /\ LET name == event.AgentRuntimeName
       IN  \/ \E create_error \in ErrorMessages :
                LET data == CreateFailedData(response_data, event.account, name, create_error)
                IN  /\ trace' = Append(trace, Raised("create", None, create_error))
                    /\ response_data' = data
                    /\ SendAndReturn(event, physical_resource_id, "L225", "FAILED", data)
                    /\ UNCHANGED <<backend, nextId>>
           \/ /\ Len(backend) < MaxRuntimes
              /\ \E style \in IdStyles, shape \in ResponseShapes :
                LET id == NewId(style, name)
                    create_response ==
                        CreateResponseData(event.account, name, CreateResponse(shape, id))
                    data == BackfillArn(DictUpdate(response_data, create_response),
                                event.account, name)
                IN  /\ backend' = Append(backend,
                           [agentRuntimeName |-> name, agentRuntimeId |-> id, status |-> "ACTIVE"])
                    /\ nextId' = nextId + 1
                    /\ trace' = Append(trace, Created(id, CreateResponse(shape, id)))
                    /\ response_data' = data
                    /\ SendAndReturn(event, physical_resource_id, "L295", "SUCCESS", data)
    /\ UNCHANGED otherVars
    /\ UNCHANGED <<event, physical_resource_id, delete_response, agent_runtime_id,
                   elapsed, invocations, preId, prevDelete>>

AfterDeleteStrict(delete_data, log) ==
    /\ delete_response' = delete_data
    /\ trace' = log
    /\ LET data == DictUpdate(response_data, delete_data)
       IN  /\ response_data' = data
           /\ SendAndReturn(event, physical_resource_id, "L295",
                  IF delete_data["Status"] = Str("Delete Attempted") THEN "FAILED" ELSE "SUCCESS",
                  data)

(***************************************************************************)
(* What lambda_handler does with the result of delete_agent_runtime: the   *)
(* Delete branch reports it; the Update branch waits for the deletion,     *)
(* goes on to create, or aborts.                                           *)
(***************************************************************************)
AfterDelete(delete_data, log) ==
    /\ delete_response' = delete_data
    /\ IF event.RequestType = "Delete"
       THEN LET data == BackfillArn(DictUpdate(response_data, delete_data),
                            event.account, event.AgentRuntimeName)
            IN  /\ response_data' = data
                /\ trace' = log
                /\ SendAndReturn(event, physical_resource_id, "L295", "SUCCESS", data)
       ELSE IF UpdateProceeds(delete_data["Status"])
            THEN /\ response_data' = response_data
                 /\ IF UpdateWaits(delete_data["Status"])
                    THEN /\ trace' = Append(log, Call("wait_for_deletion", None, TRUE))
                         /\ Continue("wait")
                    ELSE /\ trace' = log
                         /\ Continue("update_create")
            ELSE LET data == UpdateDeleteFailedData(response_data, delete_data)
                 IN  /\ response_data' = data
                     /\ trace' = log
                     /\ SendAndReturn(event, physical_resource_id, "L266", "FAILED", data)

(***************************************************************************)
(* delete_agent_runtime: the list call and the scan for the name.          *)
(***************************************************************************)
DeleteList ==
    /\ pc \in {"Update", "Delete"}
    /\ LET name == event.AgentRuntimeName
       IN  \/ \E delete_error \in ErrorMessages :
                /\ agent_runtime_id' = None
                /\ AfterDelete(DeleteErrorData(event.account, name, delete_error),
                       Append(trace, Raised("list", None, delete_error)))
           \/ LET id == Locate(backend, name)
                  log == Append(trace, Call("list", id, TRUE))
              IN  /\ agent_runtime_id' = id
                  /\ IF id = None
                     THEN AfterDelete(DeleteNotFoundData(event.account, name), log)
                     ELSE /\ trace' = log
                          /\ Continue("delete_call")
                          /\ UNCHANGED <<response_data, delete_response>>
    /\ UNCHANGED otherVars
    /\ UNCHANGED <<backend, nextId, event, physical_resource_id, elapsed,
                   invocations, preId, prevDelete>>

(***************************************************************************)
(* delete_agent_runtime: the delete call with the identifier found.        *)
(***************************************************************************)
DeleteCall ==
    /\ pc = "delete_call"
    /\ LET name == event.AgentRuntimeName
           id == agent_runtime_id
       IN  \/ /\ id \in BackendIds
              /\ backend' = BackendAfterDelete(id)
              /\ AfterDelete(DeleteDoneData(event.account, name, id),
                     Append(trace, Call("delete", id, TRUE)))
           \/ \E delete_error \in ErrorMessages :
              /\ IsNotFoundError(delete_error) => id \notin BackendIds
              /\ backend' = backend
              /\ AfterDelete(DeleteErrorData(event.account, name, delete_error),
                     Append(trace, Raised("delete", id, delete_error)))
    /\ UNCHANGED otherVars
    /\ UNCHANGED <<nextId, event, physical_resource_id, agent_runtime_id, elapsed,
                   invocations, preId, prevDelete>>

RuntimeExistsActive(runtimes, agent_runtime_name) ==
    \E i \in 1..Len(runtimes) :
        /\ Matches(runtimes[i], agent_runtime_name)
        /\ runtimes[i].status # "DELETING"

RuntimeExistsByName(runtimes, agent_runtime_name) ==
    \E i \in 1..Len(runtimes) : runtimes[i].agentRuntimeName = agent_runtime_name

RuntimeExists(runtimes, agent_runtime_name) ==
    \E i \in 1..Len(runtimes) : Matches(runtimes[i], agent_runtime_name)

(***************************************************************************)
(* wait_for_deletion, one iteration of its loop: a poll that finds no      *)
(* matching runtime returns True; one that finds a match, or whose list    *)
(* call raises, sleeps check_interval seconds.                             *)
(***************************************************************************)
WaitPoll ==
    /\ pc = "wait"
    /\ elapsed < UpdateMaxWaitSeconds
    /\ \/ /\ elapsed' = elapsed + CheckInterval
          /\ Continue("wait")
          /\ UNCHANGED <<trace, response_data>>
       \/ /\ ~RuntimeExists(backend, event.AgentRuntimeName)
          /\ elapsed' = 0
          /\ trace' = Append(trace, Call("wait_returned", None, TRUE))
          /\ Continue("update_create")
          /\ UNCHANGED response_data
    /\ UNCHANGED otherVars
    /\ UNCHANGED <<backend, nextId, event, physical_resource_id, delete_response,
                   agent_runtime_id, invocations, preId, prevDelete>>

(***************************************************************************)
(* wait_for_deletion, the loop's exit at the timeout: it returns False and *)
(* lambda_handler records the warning.                                     *)
(***************************************************************************)
WaitTimeout ==
    /\ pc = "wait"
    /\ elapsed >= UpdateMaxWaitSeconds
    /\ trace' = Append(trace, Call("wait_returned", None, FALSE))
    /\ response_data' = TimedOutData(response_data)
    /\ elapsed' = 0
    /\ Continue("update_create")
    /\ UNCHANGED otherVars
    /\ UNCHANGED <<backend, nextId, event, physical_resource_id, delete_response,
                   agent_runtime_id, invocations, preId, prevDelete>>

(***************************************************************************)
(* lambda_handler, Update branch: create_agent_runtime after the delete    *)
(* step, and what follows.                                                 *)
(***************************************************************************)
UpdateCreate ==
    /\ pc = "update_create"
    /\ LET name == event.AgentRuntimeName
       IN  \/ \E update_error \in ErrorMessages :
                LET data == UpdateFailedData(response_data, event.account, name, update_error)
                IN  /\ trace' = Append(trace, Raised("create", None, update_error))
                    /\ response_data' = data
                    /\ SendAndReturn(event, physical_resource_id, "L275", "FAILED", data)
                    /\ UNCHANGED <<backend, nextId>>
           \/ /\ Len(backend) < MaxRuntimes
              /\ \E style \in IdStyles, shape \in ResponseShapes :
                LET id == NewId(style, name)
                    create_response ==
                        CreateResponseData(event.account, name, CreateResponse(shape, id))
                    data == BackfillArn(
                                UpdatedData(response_data, name, delete_response, create_response),
                                event.account, name)
                IN  /\ backend' = Append(backend,
                           [agentRuntimeName |-> name, agentRuntimeId |-> id, status |-> "ACTIVE"])
                    /\ nextId' = nextId + 1
                    /\ trace' = Append(trace, Created(id, CreateResponse(shape, id)))
                    /\ response_data' = data
                    /\ SendAndReturn(event, physical_resource_id, "L295", "SUCCESS", data)
    /\ UNCHANGED otherVars
    /\ UNCHANGED <<event, physical_resource_id, delete_response, agent_runtime_id,
                   elapsed, invocations, preId, prevDelete>>

Next ==
    \/ Invoke
    \/ Dispatch
    \/ CreateStep
    \/ DeleteList
    \/ DeleteCall
    \/ WaitPoll
    \/ WaitTimeout
    \/ UpdateCreate
    \/ BackendFinishDeletion

Spec == Init /\ [][Next]_vars

(***************************************************************************)
(* wait_for_deletion taken on its own: a call with any name and limit,     *)
(* against a backend that lists any of a few runtimes and completes the    *)
(* deletions in progress when it pleases.  A list call takes up to         *)
(* MaxListLatency seconds and returns or raises; time.sleep takes          *)
(* check_interval seconds.                                                 *)
(***************************************************************************)
ListLatencies == 0..MaxListLatency

WaitLimits == {0, 7, DefaultMaxWaitSeconds, UpdateMaxWaitSeconds}

Runtime(name, id, status) ==
    [agentRuntimeName |-> name, agentRuntimeId |-> id, status |-> status]

WaiterBackends ==
    { <<>>,
      <<Runtime(<<"job", "-agent">>, <<"rt-", "1">>, "ACTIVE")>>,
      <<Runtime(<<"job", "-agent">>, <<"rt-", "1">>, "DELETING")>>,
      <<Runtime(<<"job", "-agent">>, <<"job", "-agent", "-", "1">>, "DELETING"),
        Runtime(<<"job">>, <<"rt-", "2">>, "DELETING")>>,
      <<Runtime(<<"other">>, <<"job", "-", "1">>, "DELETING")>> }

WaiterInit ==
    /\ backend \in WaiterBackends
    /\ NoInvocation
    /\ NoScan
    /\ NoSessions
    /\ wait_pc = "loop"
    /\ wait_name \in Names
    /\ max_wait_seconds \in WaitLimits
    /\ clock = 0
    /\ wait_result = "none"
    /\ last_poll = "none"
    /\ last_latency = 0

SleepEndLate(now) == now + 2 * CheckInterval

SleepEnd(now) == now + CheckInterval

(***************************************************************************)
(* One iteration of the loop of wait_for_deletion: the list call, the scan *)
(* of its result, and the return or the sleep.                             *)
(***************************************************************************)
WaiterPoll ==
    /\ wait_pc = "loop"
    /\ clock < max_wait_seconds
    /\ \E latency \in ListLatencies :
        /\ last_latency' = latency
        /\ \/ /\ last_poll' = "raised"
              /\ clock' = SleepEnd(clock + latency)
              /\ UNCHANGED <<wait_pc, wait_result>>
           \/ /\ RuntimeExists(backend, wait_name)
              /\ last_poll' = "listed"
              /\ clock' = SleepEnd(clock + latency)
              /\ UNCHANGED <<wait_pc, wait_result>>
           \/ /\ ~RuntimeExists(backend, wait_name)
              /\ last_poll' = "absent"
              /\ clock' = clock + latency
              /\ wait_pc' = "returned"
              /\ wait_result' = "True"
    /\ UNCHANGED <<backend, invocationVars, locatorVars, sessionVars, wait_name, max_wait_seconds>>

(***************************************************************************)
(* The exit of the loop of wait_for_deletion when its test fails.          *)
(***************************************************************************)
WaiterTimeout ==
    /\ wait_pc = "loop"
    /\ clock >= max_wait_seconds
    /\ wait_pc' = "returned"
    /\ wait_result' = "False"
    /\ UNCHANGED <<backend, invocationVars, locatorVars, sessionVars, wait_name,
                   max_wait_seconds, clock, last_poll, last_latency>>

WaiterNext ==
    \/ WaiterPoll
    \/ WaiterTimeout
    \/ BackendFinishDeletion

SpecWaiter ==
    /\ WaiterInit
    /\ [][WaiterNext]_vars
    /\ WF_vars(WaiterPoll)
    /\ WF_vars(WaiterTimeout)

(***************************************************************************)
(* The Runtime Locator taken on its own: the scan of delete_agent_runtime  *)
(* over any list of up to MaxListLen of a few records, for any of a few    *)
(* names.                                                                  *)
(***************************************************************************)
SampleRuntimes ==
    { Runtime(<<"job", "-agent", "-prod">>, <<"xyz123">>, "ACTIVE"),
      Runtime(<<"other">>, <<"job", "-agent", "-7">>, "ACTIVE"),
      Runtime(<<"job", "-agent">>, <<"rt-", "1">>, "ACTIVE"),
      Runtime(<<"job">>, <<>>, "ACTIVE") }

SampleLists == UNION { [1..n -> SampleRuntimes] : n \in 0..MaxListLen }

Targets == Names \cup {<<"job", "-agent", "-prod">>}

LocatorInit ==
    /\ backend = <<>>
    /\ NoInvocation
    /\ NoWaiter
    /\ NoSessions
    /\ scan_pc = "scan"
    /\ agentRuntimes \in SampleLists
    /\ target_name \in Targets
    /\ located = None

Scan ==
    /\ scan_pc = "scan"
    /\ located' = Locate(agentRuntimes, target_name)
    /\ scan_pc' = "done"
    /\ UNCHANGED <<backend, invocationVars, waiterVars, sessionVars, agentRuntimes,
                   target_name>>

SpecLocator == LocatorInit /\ [][Scan]_vars

(***************************************************************************)
(* The session cache of job_search_agent.py: JobSearchAgent objects are    *)
(* constructed, converse and clear sessions one call after the other.      *)
(***************************************************************************)
SessionIds == {<<"s1">>, <<"s2">>}

SessionArgs == SessionIds \cup {None, <<>>}

DictDelAll(d, key) == EmptyDict

DictDel(d, key) == [k \in (DOMAIN d) \ {key} |-> d[k]]

AgentForAlwaysNew(cache, session_id, new_agent) == new_agent

(***************************************************************************)
(* JobSearchAgent.__init__: the Agent the new object holds, and the cache  *)
(* after it, where new_agent is what _create_agent would return.           *)
(***************************************************************************)
AgentFor(cache, session_id, new_agent) ==
    IF ~Falsy(session_id)
    THEN IF session_id \notin DOMAIN cache THEN new_agent ELSE cache[session_id]
    ELSE new_agent

CacheAfter(cache, session_id, new_agent) ==
    IF ~Falsy(session_id) /\ session_id \notin DOMAIN cache
    THEN DictSet(cache, session_id, new_agent)
    ELSE cache

Construct ==
    /\ Len(instances) < MaxInstances
    /\ \E session_id \in SessionArgs :
        LET agent == AgentFor(session_agents, session_id, nextAgent)
            creates == Falsy(session_id) \/ session_id \notin DOMAIN session_agents
        IN  /\ instances' = Append(instances, [session_id |-> session_id, agent |-> agent])
            /\ session_agents' = CacheAfter(session_agents, session_id, nextAgent)
            /\ nextAgent' = IF creates THEN nextAgent + 1 ELSE nextAgent
            /\ messages' = IF creates THEN DictSet(messages, nextAgent, 0) ELSE messages
    /\ UNCHANGED <<backend, invocationVars, waiterVars, locatorVars, requests>>

(***************************************************************************)
(* handle_agent_request streaming a prompt on the Agent of an object: the  *)
(* Agent's history grows.                                                  *)
(***************************************************************************)
Converse ==
    /\ \E i \in 1..Len(instances) :
        LET agent == instances[i].agent
        IN  /\ messages[agent] < MaxMessages
            /\ messages' = [messages EXCEPT ![agent] = @ + 1]
    /\ UNCHANGED <<backend, invocationVars, waiterVars, locatorVars,
                   session_agents, instances, nextAgent, requests>>

(***************************************************************************)
(* clear_session of an object whose session id is session_id: the cache    *)
(* after it.                                                               *)
(***************************************************************************)
SessionsAfterClear(cache, session_id) ==
    IF ~Falsy(session_id) /\ session_id \in DOMAIN cache
    THEN DictDel(cache, session_id)
    ELSE cache

clear_session ==
    /\ \E i \in 1..Len(instances) :
        session_agents' = SessionsAfterClear(session_agents, instances[i].session_id)
    /\ UNCHANGED <<backend, invocationVars, waiterVars, locatorVars,
                   instances, nextAgent, messages, requests>>

clear_all_sessions ==
    /\ session_agents' = EmptyDict
    /\ UNCHANGED <<backend, invocationVars, waiterVars, locatorVars,
                   instances, nextAgent, messages, requests>>

(***************************************************************************)
(* list(d.keys()): the keys of a dict as a list, each key once; the order  *)
(* of the list is not modelled.                                            *)
(***************************************************************************)
RECURSIVE KeyList(_)
KeyList(keys) ==
    IF keys = {}
    THEN <<>>
    ELSE LET key == CHOOSE k \in keys : TRUE
         IN  <<key>> \o KeyList(keys \ {key})

get_active_sessions == KeyList(DOMAIN session_agents)

SessionsNext ==
    \/ Construct
    \/ Converse
    \/ clear_session
    \/ clear_all_sessions

SpecSessions == Init /\ [][SessionsNext]_vars

(***************************************************************************)
(* handle_agent_request invocations in flight at the same time, each       *)
(* advancing one line of JobSearchAgent.__init__ at a time: the test of    *)
(* line 38, the assignment of line 39 and the read of line 40 are separate *)
(* steps, and nothing keeps another invocation from running between them.  *)
(***************************************************************************)
Payloads == [prompt : {"", "find jobs"}, session_id : SessionArgs]

InsertedIfAbsent(cache, session_id, new_agent) ==
    IF session_id \in DOMAIN cache THEN cache ELSE DictSet(cache, session_id, new_agent)

(***************************************************************************)
(* Line 39: the cache after self._session_agents[session_id] = new_agent.  *)
(***************************************************************************)
Inserted(cache, session_id, new_agent) == DictSet(cache, session_id, new_agent)

Receive(r) ==
    /\ requests[r].pc = "idle"
    /\ \E payload \in Payloads :
        requests' = [requests EXCEPT ![r] =
                        IF payload.prompt = ""
                        THEN [@ EXCEPT !.pc = "error"]
                        ELSE [@ EXCEPT !.pc = "init", !.session_id = payload.session_id]]
    /\ UNCHANGED <<backend, invocationVars, waiterVars, locatorVars,
                   session_agents, instances, nextAgent, messages>>

InitCheck(r) ==
    /\ requests[r].pc = "init"
    /\ LET session_id == requests[r].session_id
       IN  requests' = [requests EXCEPT ![r].pc =
                           IF Falsy(session_id) THEN "stateless"
                           ELSE IF session_id \notin DOMAIN session_agents THEN "insert"
                           ELSE "read"]
    /\ UNCHANGED <<backend, invocationVars, waiterVars, locatorVars,
                   session_agents, instances, nextAgent, messages>>

InitInsert(r) ==
    /\ requests[r].pc = "insert"
    /\ session_agents' = Inserted(session_agents, requests[r].session_id, nextAgent)
    /\ nextAgent' = nextAgent + 1
    /\ messages' = DictSet(messages, nextAgent, 0)
    /\ requests' = [requests EXCEPT ![r].pc = "read"]
    /\ UNCHANGED <<backend, invocationVars, waiterVars, locatorVars, instances>>

InitRead(r) ==
    /\ requests[r].pc = "read"
    /\ requests' = [requests EXCEPT ![r] =
                        [@ EXCEPT !.pc = "constructed",
                                  !.agent = session_agents[requests[r].session_id]]]
    /\ UNCHANGED <<backend, invocationVars, waiterVars, locatorVars,
                   session_agents, instances, nextAgent, messages>>

InitStateless(r) ==
    /\ requests[r].pc = "stateless"
    /\ nextAgent' = nextAgent + 1
    /\ messages' = DictSet(messages, nextAgent, 0)
    /\ requests' = [requests EXCEPT ![r] =
                        [@ EXCEPT !.pc = "constructed", !.agent = nextAgent]]
    /\ UNCHANGED <<backend, invocationVars, waiterVars, locatorVars,
                   session_agents, instances>>

(***************************************************************************)
(* Line 174: the invocation starts agent.agent.stream_async(prompt); the   *)
(* stream ends some time later, the Agent's history one exchange longer.   *)
(***************************************************************************)
StreamStart(r) ==
    /\ requests[r].pc = "constructed"
    /\ requests' = [requests EXCEPT ![r].pc = "streaming"]
    /\ UNCHANGED <<backend, invocationVars, waiterVars, locatorVars,
                   session_agents, instances, nextAgent, messages>>

StreamEnd(r) ==
    /\ requests[r].pc = "streaming"
    /\ messages' = [messages EXCEPT ![requests[r].agent] = @ + 1]
    /\ requests' = [requests EXCEPT ![r].pc = "done"]
    /\ UNCHANGED <<backend, invocationVars, waiterVars, locatorVars,
                   session_agents, instances, nextAgent>>

RequestsNext ==
    \/ \E r \in Requests : Receive(r)
    \/ \E r \in Requests : InitCheck(r)
    \/ \E r \in Requests : InitInsert(r)
    \/ \E r \in Requests : InitRead(r)
    \/ \E r \in Requests : InitStateless(r)
    \/ \E r \in Requests : StreamStart(r)
    \/ \E r \in Requests : StreamEnd(r)

SpecRequests == Init /\ [][RequestsNext]_vars

(***************************************************************************)
(* Properties of lambda_handler.                                           *)
(***************************************************************************)
Returned(request_type) == pc = "returned" /\ event.RequestType = request_type

ClientConstructed == Len(trace) > 0 /\ trace[1] = Call("client", None, TRUE)

LastCall == trace[Len(trace)]

DataStatus == DictGet(sent[1].Data, "Status", None)

NotFoundStatuses ==
    {Str("Runtime Not Found - Assuming Already Deleted"), Str("Already Deleted")}

WaitConfirmed == \E i \in 1..Len(trace) : trace[i] = Call("wait_returned", None, TRUE)

WaitTimedOut == \E i \in 1..Len(trace) : trace[i] = Call("wait_returned", None, FALSE)

(* C1: an invocation that returns has made exactly one send_response call, *)
(* a SUCCESS or a FAILED notification, whatever the request type and       *)
(* whatever the client construction and the backend calls did; at no       *)
(* point of an invocation have two been made.                              *)
C1_ExactlyOneNotification ==
    /\ sendCalls <= 1
    /\ Len(sent) = sendCalls
    /\ pc = "returned" =>
          /\ sendCalls = 1
          /\ sent[1].Status \in {"SUCCESS", "FAILED"}

C1_Witness ==
    /\ Returned("Update")
    /\ WaitTimedOut
    /\ LastCall.op = "create" /\ ~LastCall.ok
    /\ sendCalls = 1
    /\ sent[1].Status = "FAILED"

(* C2: an Update whose delete step finds no runtime matching the name in   *)
(* the list does not call wait_for_deletion, calls create_agent_runtime,   *)
(* and when that create returns sends SUCCESS with Data.Status             *)
(* "Updated (Deleted and Recreated)".                                      *)
C2_UpdateOfUnlistedNameRecreates ==
    (Returned("Update") /\ Unlisted(trace)) =>
        /\ Count(trace, "wait_for_deletion") = 0
        /\ Count(trace, "create") = 1
        /\ LastCall.ok =>
              /\ sent[1].Status = "SUCCESS"
              /\ DataStatus = Str("Updated (Deleted and Recreated)")

(* C3: a Delete request whose delete_agent_runtime ran sends a single      *)
(* notification and it is SUCCESS, whether the list raised, the delete     *)
(* raised a not-found or any other error, the runtime was absent or        *)
(* present; an error of the list or of the delete ends in the status       *)
(* "Already Deleted" or "Delete Attempted".                                *)
C3_DeleteNeverFails ==
    (Returned("Delete") /\ ClientConstructed) =>
        /\ Len(trace) > 1
        /\ Len(sent) = 1
        /\ sent[1].Status = "SUCCESS"
        /\ ~LastCall.ok => DataStatus \in {Str("Already Deleted"), Str("Delete Attempted")}
        /\ (~LastCall.ok /\ "AccessDeniedException" \in Tokens(LastCall.error)) =>
               DataStatus = Str("Delete Attempted")
        /\ (~LastCall.ok /\ "ResourceNotFoundException" \in Tokens(LastCall.error)) =>
               DataStatus = Str("Already Deleted")

C3_Witness ==
    /\ Returned("Delete")
    /\ LastCall.op = "delete" /\ ~LastCall.ok
    /\ "AccessDeniedException" \in Tokens(LastCall.error)
    /\ sent[1].Status = "SUCCESS"
    /\ DataStatus = Str("Delete Attempted")

(* C4: while the events of a name are a Create, then Updates, then a       *)
(* Delete, each carrying the physical id of the previous notification,     *)
(* every notification carries the physical id of the Create's              *)
(* notification.                                                           *)
C4_PhysicalIdStableOverLifetime ==
    \A n \in Names :
        resource[n].phase \in {"live", "ended"} =>
            /\ resource[n].first # None
            /\ resource[n].last = resource[n].first

C4_Witness ==
    \E n \in Names :
        /\ resource[n].phase = "ended"
        /\ invocations = 3
        /\ nextId = 3
        /\ sent[1].Status = "FAILED"

(* C5: all notifications of Create requests for one name carry the same    *)
(* physical id, whatever the event's other fields (a PhysicalResourceId    *)
(* among them), the runtime the backend created and the outcome.           *)
C5_CreateIdDependsOnNameOnly ==
    \A n \in Names :
        \A i, j \in 1..Len(resource[n].createIds) :
            resource[n].createIds[i] = resource[n].createIds[j]

C5_Witness ==
    /\ Returned("Create")
    /\ event.PhysicalResourceId = CustomPhysicalId
    /\ sent[1].Status = "FAILED"
    /\ Len(resource[event.AgentRuntimeName].createIds) = 2
    /\ \E i \in 1..Len(backend) : backend[i].agentRuntimeName = event.AgentRuntimeName

(* C6, as claimed: after an Update that ends with SUCCESS, from a backend  *)
(* in which the name resolved to X, the locator resolves the name to an    *)
(* identifier other than X, and the notification carries the physical id   *)
(* of the event.                                                           *)
C6_UpdateResolvesToNewRuntime ==
    (Returned("Update") /\ sent[1].Status = "SUCCESS" /\ preId # None) =>
        /\ Locate(backend, event.AgentRuntimeName) \notin {None, preId}
        /\ event.PhysicalResourceId # None =>
               sent[1].PhysicalResourceId = event.PhysicalResourceId

(* C6, amended: after such an Update the backend lists a newly created     *)
(* runtime of the name whose identifier is not X and the notification      *)
(* carries the physical id of the event; the locator resolves the name to  *)
(* the new identifier when wait_for_deletion confirmed the deletion.       *)
C6_UpdateCreatesNewRuntime ==
    (Returned("Update") /\ sent[1].Status = "SUCCESS" /\ preId # None) =>
        /\ LastCall.op = "create" /\ LastCall.ok
        /\ LastCall.id # preId
        /\ \E i \in 1..Len(backend) :
              /\ backend[i].agentRuntimeId = LastCall.id
              /\ backend[i].agentRuntimeName = event.AgentRuntimeName
        /\ event.PhysicalResourceId # None =>
               sent[1].PhysicalResourceId = event.PhysicalResourceId
        /\ WaitConfirmed => Locate(backend, event.AgentRuntimeName) = LastCall.id

C6_Witness ==
    /\ Returned("Update")
    /\ sent[1].Status = "SUCCESS"
    /\ preId # None
    /\ WaitConfirmed
    /\ event.PhysicalResourceId = CustomPhysicalId
    /\ Locate(backend, event.AgentRuntimeName) = LastCall.id

(* C7: of two Delete invocations in succession for a name of which the     *)
(* list has no runtime, neither calls the backend's delete, both end in a  *)
(* not-found status and SUCCESS, and neither changes the backend.          *)
C7_DeleteIdempotent ==
    ( /\ prevDelete.kind = "Delete of an unlisted name"
      /\ Returned("Delete")
      /\ event.AgentRuntimeName = prevDelete.AgentRuntimeName
      /\ Unlisted(trace) ) =>
        /\ prevDelete.deletes = 0 /\ Count(trace, "delete") = 0
        /\ prevDelete.Status = "SUCCESS"
        /\ Len(sent) = 1 /\ sent[1].Status = "SUCCESS"
        /\ prevDelete.DataStatus \in NotFoundStatuses
        /\ DataStatus \in NotFoundStatuses
        /\ "Error" \notin DOMAIN sent[1].Data
        /\ ~prevDelete.mutated /\ ~Mutated(trace)

C7_Witness ==
    /\ prevDelete.kind = "Delete of an unlisted name"
    /\ Returned("Delete")
    /\ event.AgentRuntimeName = prevDelete.AgentRuntimeName
    /\ Unlisted(trace)
    /\ DataStatus = prevDelete.DataStatus

(* C8: in an Update whose delete step ended in "Delete Attempted", the     *)
(* backend's create is not called and the one notification is FAILED.      *)
C8_UpdateAbortsOnDeleteFailure ==
    ( /\ event.RequestType = "Update"
      /\ delete_response["Status"] = Str("Delete Attempted") ) =>
        /\ pc = "returned"
        /\ Count(trace, "create") = 0
        /\ Len(sent) = 1
        /\ sent[1].Status = "FAILED"

C8_Witness ==
    /\ Returned("Update")
    /\ delete_response["Status"] = Str("Delete Attempted")
    /\ LastCall.op = "delete" /\ ~LastCall.ok
    /\ sent[1].Status = "FAILED"

(* C9: a Create whose backend create call raises makes that one create     *)
(* call and no list or delete call, and sends FAILED with Data.Status      *)
(* "Creation Failed" and the error's text in Data.Error.                   *)
C9_CreateFailureReported ==
    ( /\ Returned("Create")
      /\ \E i \in 1..Len(trace) : trace[i].op = "create" /\ ~trace[i].ok ) =>
        /\ Count(trace, "create") = 1
        /\ Count(trace, "list") = 0
        /\ Count(trace, "delete") = 0
        /\ Len(sent) = 1
        /\ sent[1].Status = "FAILED"
        /\ DataStatus = Str("Creation Failed")
        /\ "Error" \in DOMAIN sent[1].Data
        /\ sent[1].Data["Error"] = LastCall.error
        /\ LastCall.error \in ErrorMessages

C9_Witness ==
    /\ Returned("Create")
    /\ LastCall.op = "create" /\ ~LastCall.ok
    /\ sent[1].Status = "FAILED"
    /\ backend # <<>>

(* C10, as claimed: a request whose type is none of Create, Update and     *)
(* Delete makes no create, list or delete call and sends SUCCESS with a    *)
(* Data.Status that names the request type.                                *)
C10_UnexpectedTypeSucceeds ==
    (pc = "returned" /\ event.RequestType \notin {"Create", "Update", "Delete"}) =>
        /\ Count(trace, "create") + Count(trace, "list") + Count(trace, "delete") = 0
        /\ sent[1].Status = "SUCCESS"
        /\ event.RequestType \in Tokens(DataStatus)

(* C10, amended: such a request makes no create, list or delete call; it   *)
(* sends SUCCESS with a Data.Status that names the request type when the   *)
(* client was constructed, and FAILED when its construction raised.        *)
C10_UnexpectedTypeSucceedsWithClient ==
    (pc = "returned" /\ event.RequestType \notin {"Create", "Update", "Delete"}) =>
        /\ Count(trace, "create") + Count(trace, "list") + Count(trace, "delete") = 0
        /\ Len(sent) = 1
        /\ IF ClientConstructed
           THEN /\ sent[1].Status = "SUCCESS"
                /\ event.RequestType \in Tokens(DataStatus)
           ELSE /\ sent[1].Status = "FAILED"
                /\ sent[1].Data["Error"] = ClientError

C10_Witness ==
    /\ pc = "returned"
    /\ event.RequestType = "Replace"
    /\ ClientConstructed
    /\ sent[1].Status = "SUCCESS"
    /\ backend # <<>>

(***************************************************************************)
(* Properties of wait_for_deletion.                                        *)
(***************************************************************************)

(* C11, as claimed: wait_for_deletion returns, and it has returned no      *)
(* later than max_wait_seconds + check_interval seconds after it started,  *)
(* whatever the list call does at each poll.                               *)
C11_WaiterReturnsWithinLimit ==
    wait_pc = "returned" => clock <= max_wait_seconds + CheckInterval

(* C11, amended: wait_for_deletion returns True or False, whatever the     *)
(* list call does at each poll, no later than max_wait_seconds +           *)
(* check_interval seconds plus the time its last list call took after it   *)
(* started.                                                                *)
C11_WaiterTerminates ==
    /\ <>(wait_pc = "returned")
    /\ [](wait_pc = "returned" =>
            /\ wait_result \in {"True", "False"}
            /\ clock <= max_wait_seconds + CheckInterval + last_latency)

C11_Witness ==
    /\ wait_pc = "returned"
    /\ wait_result = "False"
    /\ last_poll = "raised"
    /\ max_wait_seconds = UpdateMaxWaitSeconds
    /\ clock > max_wait_seconds + CheckInterval

(* C12: a Delete whose list call resolves the name to the identifier I of  *)
(* a listed runtime makes exactly one delete call, with that identifier,   *)
(* and when the call returns the status is "Deleted" and the one           *)
(* notification is SUCCESS.                                                *)
C12_DeleteOfListedNameDeletesIt ==
    ( /\ Returned("Delete")
      /\ Len(trace) > 1
      /\ trace[2].op = "list" /\ trace[2].ok /\ trace[2].id # None ) =>
        /\ Count(trace, "delete") = 1
        /\ Len(trace) = 3
        /\ trace[3].op = "delete"
        /\ trace[3].id = trace[2].id
        /\ trace[3].ok =>
              /\ DataStatus = Str("Deleted")
              /\ Len(sent) = 1
              /\ sent[1].Status = "SUCCESS"

C12_Witness ==
    /\ Returned("Delete")
    /\ Len(trace) = 3
    /\ trace[2].op = "list" /\ trace[2].id # None
    /\ trace[3] = Call("delete", trace[2].id, TRUE)
    /\ Len(backend) = 2
    /\ backend[2].agentRuntimeId = trace[2].id
    /\ backend[2].status = "DELETING"
    /\ DataStatus = Str("Deleted")

(***************************************************************************)
(* Properties of the Runtime Locator.                                      *)
(***************************************************************************)

(* C13: the scan resolves the target name to the identifier of the first   *)
(* record, in list order, whose name equals the target or whose identifier *)
(* starts with the target, and to not-found when no record passes either   *)
(* test; the list [job-agent-prod / xyz123] resolves job-agent-prod to     *)
(* xyz123 and job-agent to not-found.                                      *)
C13_LocatorFirstMatch ==
    scan_pc = "done" =>
        LET Hit(i) ==
                \/ agentRuntimes[i].agentRuntimeName = target_name
                \/ /\ Len(target_name) <= Len(agentRuntimes[i].agentRuntimeId)
                   /\ \A k \in 1..Len(target_name) :
                          agentRuntimes[i].agentRuntimeId[k] = target_name[k]
            example == <<Runtime(<<"job", "-agent", "-prod">>, <<"xyz123">>, "ACTIVE")>>
        IN  /\ (located = None) <=> (\A i \in 1..Len(agentRuntimes) : ~Hit(i))
            /\ located # None =>
                   \E i \in 1..Len(agentRuntimes) :
                       /\ Hit(i)
                       /\ \A j \in 1..(i - 1) : ~Hit(j)
                       /\ located = agentRuntimes[i].agentRuntimeId
            /\ (agentRuntimes = example /\ target_name = <<"job", "-agent", "-prod">>) =>
                   located = <<"xyz123">>
            /\ (agentRuntimes = example /\ target_name = <<"job", "-agent">>) =>
                   located = None

C13_Witness ==
    /\ scan_pc = "done"
    /\ target_name = <<"job", "-agent">>
    /\ Len(agentRuntimes) = 3
    /\ agentRuntimes[1].agentRuntimeId = <<"xyz123">>
    /\ agentRuntimes[2].agentRuntimeName = <<"other">>
    /\ agentRuntimes[3].agentRuntimeName = <<"job", "-agent">>
    /\ located = <<"job", "-agent", "-7">>

(***************************************************************************)
(* Further properties of lambda_handler.                                   *)
(***************************************************************************)

(* C14: every FAILED notification for a Create whose create call raised,   *)
(* and for an Update whose delete step ended in a hard failure ("Delete    *)
(* Attempted"), carries the text of the error in Data.Error.               *)
C14_FatalFailuresCarryError ==
    ( /\ pc = "returned"
      /\ sent[1].Status = "FAILED"
      /\ \/ /\ event.RequestType = "Create"
            /\ LastCall.op = "create" /\ ~LastCall.ok
         \/ /\ event.RequestType = "Update"
            /\ LastCall.op \in {"list", "delete"} /\ ~LastCall.ok
            /\ delete_response["Status"] = Str("Delete Attempted") ) =>
        /\ "Error" \in DOMAIN sent[1].Data
        /\ sent[1].Data["Error"] = LastCall.error

(* C15: an Update whose delete call returned (status "Deleted") and whose  *)
(* wait_for_deletion returned False still makes the create call; when the  *)
(* create returns, the notification is SUCCESS with Data.Status            *)
(* "Updated (Deleted and Recreated)" and a Data.Warning about the timeout; *)
(* the notification is FAILED only when the create raised.                 *)
C15_UpdateProceedsAfterWaitTimeout ==
    (Returned("Update") /\ WaitTimedOut) =>
        /\ delete_response["Status"] = Str("Deleted")
        /\ Count(trace, "create") = 1
        /\ LastCall.op = "create"
        /\ Len(sent) = 1
        /\ LastCall.ok =>
              /\ sent[1].Status = "SUCCESS"
              /\ DataStatus = Str("Updated (Deleted and Recreated)")
              /\ "Warning" \in DOMAIN sent[1].Data
              /\ sent[1].Data["Warning"] =
                     Str("Deletion wait timed out but proceeding with creation")
        /\ sent[1].Status = "FAILED" => ~LastCall.ok

C15_Witness ==
    /\ Returned("Update")
    /\ WaitTimedOut
    /\ LastCall.op = "create" /\ LastCall.ok
    /\ sent[1].Status = "SUCCESS"
    /\ "Warning" \in DOMAIN sent[1].Data
    /\ Locate(backend, event.AgentRuntimeName) = preId

(* C16: every notification has a Data with a non-empty AgentRuntimeArn:    *)
(* the ARN the backend returned when a create returned one, otherwise the  *)
(* ARN constructed from the runtime id the create returned, and the        *)
(* "<name>-placeholder" ARN when there is no id (the create returned none, *)
(* or raised, or was not called).                                          *)
C16_EveryNotificationHasArn ==
    \A i \in 1..Len(sent) :
        LET data == sent[i].Data
            constructed(identifier) ==
                <<"arn:aws:bedrock-agentcore:">> \o AWS_REGION \o <<":">> \o event.account
                    \o <<":runtime/">> \o identifier
            created == Len(trace) > 0 /\ LastCall.op = "create" /\ LastCall.ok
        IN  /\ "AgentRuntimeArn" \in DOMAIN data
            /\ data["AgentRuntimeArn"] # <<>>
            /\ data["AgentRuntimeArn"] # None
            /\ data["AgentRuntimeArn"] =
                   IF created /\ LastCall.response.agentRuntimeArn # None
                   THEN LastCall.response.agentRuntimeArn
                   ELSE IF created /\ LastCall.response.agentRuntimeId # None
                        THEN constructed(LastCall.response.agentRuntimeId)
                        ELSE constructed(event.AgentRuntimeName \o <<"-placeholder">>)

C16_Witness ==
    /\ Returned("Update")
    /\ sent[1].Status = "SUCCESS"
    /\ LastCall.op = "create" /\ LastCall.ok
    /\ LastCall.response.agentRuntimeArn = None
    /\ LastCall.response.agentRuntimeId = None
    /\ sent[1].Data["AgentRuntimeArn"] =
           <<"arn:aws:bedrock-agentcore:">> \o AWS_REGION \o <<":">> \o event.account
               \o <<":runtime/">> \o event.AgentRuntimeName \o <<"-placeholder">>

(* C18: an invocation whose event lacks a field the handler reads (a       *)
(* Delete event without ContainerUri, say) still ends in exactly one       *)
(* notification.                                                           *)
C18_MalformedEventNotified ==
    (pc \in {"returned", "raised"} /\ event.missing \in ConsumedFields) =>
        /\ sendCalls = 1
        /\ Len(sent) = 1

(* C19: in an Update the create call is made at most once and is the last  *)
(* call of the invocation; it comes after the list call and after the one  *)
(* delete call if there is one, and, when the delete status is "Deleted",  *)
(* after wait_for_deletion has returned; no delete call comes after it.    *)
C19_UpdateOrdering ==
    event.RequestType = "Update" =>
        LET at(op) == {i \in 1..Len(trace) : trace[i].op = op}
        IN  /\ Cardinality(at("create")) <= 1
            /\ Cardinality(at("delete")) <= 1
            /\ Cardinality(at("list")) <= 1
            /\ \A d \in at("delete") : \E l \in at("list") : l < d /\ trace[l].ok
            /\ \A c \in at("create") :
                  /\ c = Len(trace)
                  /\ \E l \in at("list") : l < c
                  /\ \A d \in at("delete") : d < c
                  /\ delete_response["Status"] = Str("Deleted") =>
                         \E w \in at("wait_returned") :
                             /\ w < c
                             /\ \A d \in at("delete") : d < w
            /\ pc = "update_create" =>
                  /\ at("list") # {}
                  /\ delete_response["Status"] = Str("Deleted") =>
                         at("wait_returned") # {}

C19_Witness ==
    /\ Returned("Update")
    /\ Len(trace) = 6
    /\ trace[2].op = "list"
    /\ trace[3].op = "delete" /\ trace[3].ok
    /\ trace[4].op = "wait_for_deletion"
    /\ trace[5].op = "wait_returned"
    /\ trace[6].op = "create" /\ trace[6].ok
    /\ sent[1].Status = "SUCCESS"

(***************************************************************************)
(* Further properties of wait_for_deletion.                                *)
(***************************************************************************)

(* C20: wait_for_deletion returns True at the first poll whose list has no *)
(* record whose name equals the name or whose identifier starts with it    *)
(* (no such poll leaves it running); it returns False only once the        *)
(* maximum duration has elapsed without such a poll; a poll whose list     *)
(* call raises leaves it running (it has slept and polls again, or times   *)
(* out) and never makes it return True.                                    *)
C20_WaiterPollOutcomes ==
    LET Listed ==
            \E i \in 1..Len(backend) :
                \/ backend[i].agentRuntimeName = wait_name
                \/ /\ Len(wait_name) <= Len(backend[i].agentRuntimeId)
                   /\ \A k \in 1..Len(wait_name) :
                          backend[i].agentRuntimeId[k] = wait_name[k]
    IN  /\ wait_pc \in {"loop", "returned"}
        /\ last_poll = "absent" => (wait_pc = "returned" /\ wait_result = "True")
        /\ wait_result = "True" => (last_poll = "absent" /\ ~Listed)
        /\ wait_result = "False" =>
              /\ clock >= max_wait_seconds
              /\ last_poll # "absent"
        /\ last_poll \in {"raised", "listed"} =>
              /\ wait_result # "True"
              /\ clock >= CheckInterval
              /\ wait_pc = "returned" => clock >= max_wait_seconds

C20_Witness ==
    /\ wait_pc = "returned"
    /\ wait_result = "True"
    /\ last_poll = "absent"
    /\ clock >= 2 * CheckInterval
    /\ clock < max_wait_seconds
    /\ backend # <<>>

(***************************************************************************)
(* Properties of the session cache.                                        *)
(***************************************************************************)

(* C17: a construction with a non-empty session id S returns the Agent     *)
(* cached for S when there is one, creating none and leaving the cache as  *)
(* it is, and otherwise creates one new Agent and caches it for S; a       *)
(* construction with session id None or empty creates a new Agent and      *)
(* leaves the cache as it is.                                              *)
C17_GetOrCreate ==
    [][ Len(instances') = Len(instances) + 1 =>
            LET new == instances'[Len(instances')]
                S == new.session_id
                isNew ==
                    /\ \A j \in 1..Len(instances) : instances[j].agent # new.agent
                    /\ \A k \in DOMAIN session_agents : session_agents[k] # new.agent
                    /\ nextAgent' = nextAgent + 1
                    /\ messages'[new.agent] = 0
            IN  IF S # None /\ S # <<>>
                THEN IF S \in DOMAIN session_agents
                     THEN /\ new.agent = session_agents[S]
                          /\ session_agents' = session_agents
                          /\ nextAgent' = nextAgent
                          /\ messages' = messages
                     ELSE /\ isNew
                          /\ DOMAIN session_agents' = DOMAIN session_agents \cup {S}
                          /\ session_agents'[S] = new.agent
                          /\ \A k \in DOMAIN session_agents :
                                 session_agents'[k] = session_agents[k]
                ELSE /\ isNew
                     /\ session_agents' = session_agents ]_vars

C17_Witness ==
    /\ Len(instances) = 3
    /\ instances[1].session_id = <<"s1">>
    /\ instances[2].session_id = <<>>
    /\ instances[3].session_id = <<"s1">>
    /\ instances[3].agent = instances[1].agent
    /\ instances[2].agent # instances[1].agent
    /\ messages[instances[3].agent] = 1
    /\ DOMAIN session_agents = {<<"s1">>}

(***************************************************************************)
(* Properties of lambda_handler across invocations.                        *)
(***************************************************************************)

(* C21: an Update whose delete call returned and whose create call raises  *)
(* sends FAILED with Data.Status "Update Failed" and the error's text in   *)
(* Data.Error, makes no call after the create, and leaves no runtime of    *)
(* the name other than one being deleted; an Update or a Delete that       *)
(* follows it for the same name and finds no runtime listed takes the      *)
(* not-found path: the Delete sends SUCCESS with a not-found status, the   *)
(* Update goes on to the create call and does not send FAILED unless the   *)
(* create raises.                                                          *)
C21_FailedUpdateThenAbsenceHandled ==
    /\ (Returned("Update") /\ CreateRaisedAfterDelete(trace)) =>
          /\ Len(sent) = 1
          /\ sent[1].Status = "FAILED"
          /\ DataStatus = Str("Update Failed")
          /\ sent[1].Data["Error"] = LastCall.error
          /\ Count(trace, "create") = 1
          /\ Count(trace, "delete") = 1
          /\ \A i \in 1..Len(backend) :
                 backend[i].agentRuntimeId = trace[3].id => backend[i].status = "DELETING"
    /\ ( /\ prevDelete.kind = "Update whose create raised"
         /\ pc = "returned"
         /\ event.AgentRuntimeName = prevDelete.AgentRuntimeName
         /\ ClientConstructed
         /\ Unlisted(trace) ) =>
          /\ event.RequestType = "Delete" =>
                 /\ sent[1].Status = "SUCCESS"
                 /\ DataStatus \in NotFoundStatuses
          /\ event.RequestType = "Update" =>
                 /\ Count(trace, "create") = 1
                 /\ sent[1].Status = "FAILED" => ~LastCall.ok

(***************************************************************************)
(* Properties of handle_agent_request invocations in flight together.      *)
(***************************************************************************)

(* C22: invocations carrying one session id race on the cache, for nothing *)
(* orders them: an invocation that has its Agent can start streaming on it *)
(* whatever the other invocations are doing, streaming on that Agent       *)
(* included, and the assignment of line 39 stores a new Agent as the entry *)
(* of its session id whatever the cache holds by then, so that an Agent    *)
(* another invocation stored and read since the test of line 38 stops      *)
(* being the cached one while that invocation keeps it.                    *)
C22_SameSessionRequestsRace ==
    /\ [](\A r \in Requests : requests[r].pc = "constructed" => ENABLED StreamStart(r))
    /\ [][ \A r \in Requests :
              (requests[r].pc = "insert" /\ requests'[r].pc = "read") =>
                  LET S == requests[r].session_id
                  IN  /\ S \in DOMAIN session_agents'
                      /\ session_agents'[S] = nextAgent
                      /\ nextAgent \notin DOMAIN messages
                      /\ \A q \in Requests : requests'[q].agent = requests[q].agent
                      /\ \A q \in Requests :
                             requests[q].agent # 0 => requests[q].agent # session_agents'[S]
         ]_vars

C22_Witness ==
    /\ \A r \in Requests :
           /\ requests[r].pc = "streaming"
           /\ requests[r].session_id = <<"s1">>
    /\ \E r, q, p \in Requests :
           /\ r # q
           /\ requests[r].agent = session_agents[<<"s1">>]
           /\ requests[q].agent = session_agents[<<"s1">>]
           /\ requests[p].agent # session_agents[<<"s1">>]

(***************************************************************************)
(* Properties of the operations that clear and list the session cache.     *)
(***************************************************************************)

(* C23: clear_session of an object with session id S removes the entry of  *)
(* S and no other, every other entry keeping its Agent, and leaves the     *)
(* cache as it is when S is None, empty or not cached; clear_all_sessions  *)
(* leaves the cache empty; get_active_sessions lists the cached session    *)
(* ids, each once and no other; a construction with S when S is not cached *)
(* makes an Agent that is none of the Agents made before, the ones removed *)
(* from the cache and held by earlier objects of S included.               *)
C23_ClearAndList ==
    /\ [](/\ \A i \in 1..Len(instances) :
                LET S == instances[i].session_id
                    after == SessionsAfterClear(session_agents, S)
                IN  /\ DOMAIN after = (DOMAIN session_agents) \ {S}
                    /\ \A k \in DOMAIN after : after[k] = session_agents[k]
                    /\ (S = None \/ S = <<>> \/ S \notin DOMAIN session_agents) =>
                           after = session_agents
          /\ {get_active_sessions[n] : n \in 1..Len(get_active_sessions)} =
                 DOMAIN session_agents
          /\ Len(get_active_sessions) = Cardinality(DOMAIN session_agents))
    /\ [][ /\ clear_all_sessions =>
                 /\ DOMAIN session_agents' = {}
                 /\ get_active_sessions' = <<>>
           /\ (instances' = instances /\ session_agents' # session_agents) =>
                 \/ DOMAIN session_agents' = {}
                 \/ \E i \in 1..Len(instances) :
                        session_agents' =
                            SessionsAfterClear(session_agents, instances[i].session_id)
           /\ Len(instances') = Len(instances) + 1 =>
                 LET new == instances'[Len(instances')]
                     S == new.session_id
                 IN  (S # None /\ S # <<>> /\ S \notin DOMAIN session_agents) =>
                         /\ new.agent \notin DOMAIN messages
                         /\ session_agents'[S] = new.agent
                         /\ \A j \in 1..Len(instances) :
                                instances[j].session_id = S =>
                                    instances[j].agent # new.agent
         ]_vars

C23_Witness ==
    /\ Len(instances) = 3
    /\ instances[1].session_id = <<"s1">>
    /\ instances[2].session_id = <<"s2">>
    /\ instances[3].session_id = <<"s1">>
    /\ instances[3].agent # instances[1].agent
    /\ DOMAIN session_agents = {<<"s1">>, <<"s2">>}
    /\ session_agents[<<"s1">>] = instances[3].agent
    /\ session_agents[<<"s2">>] = instances[2].agent
    /\ get_active_sessions \in {<< <<"s1">>, <<"s2">> >>, << <<"s2">>, <<"s1">> >>}

====
